---- MODULE Spec2Model ----
(***************************************************************************)
(* RepoSage repository-operation layer: coordinate resolution, readFile's  *)
(* branch fallback, the AI pull-request operations with their publish      *)
(* step, label generation, and the operations that clone into a temporary  *)
(* workspace.                                                              *)
(*                                                                         *)
(* A URL is a sequence of tokens: the literal "github.com", the separator  *)
(* "/", the literal ".git" and name pieces.  A label is a sequence of      *)
(* characters.  Every external call (fetch, clone, exec, rm) draws its     *)
(* outcome from the outcomes the call can have.                            *)
(***************************************************************************)
EXTENDS Integers, Sequences, FiniteSets, TLC

VARIABLES
    call,           \* the invocation: operation name and arguments
    env,            \* process.env at call time: which credentials are set
    pc,             \* position of the invocation in its handler
    net,            \* HTTP requests issued so far, in order, with the response kind
    result,         \* what the caller got: nothing yet, a return value or an error
    def,            \* readFileFromRepo: the value getDefaultBranch returned
    branchesToTry,  \* readFileFromRepo: the candidate list
    tryIdx,         \* readFileFromRepo: index of the next candidate
    lastError,      \* readFileFromRepo: lastError
    wcall,          \* per workspace invocation: operation, arguments and configuration
    wpc,            \* per workspace invocation: position in its handler
    tmpDir,         \* per workspace invocation: tmpDir (0 is null)
    wres,           \* per workspace invocation: the pending, then delivered, outcome
    fx,             \* per workspace invocation: the side effects started, in order
    issues,         \* analyzeRepository: issues
    testsPass,      \* analyzeRepository: testsPass
    outdatedCount,  \* checkDependencies: number of entries of outdatedRecord
    dirs,           \* the temporary directories that exist on disk
    prMeta,         \* AI operations: the fields read from the PR metadata
    llm,            \* AI operations: what the completion carried
    upstream,       \* AI operations: lengths of the texts the prompt is built from
    prompt,         \* AI operations: the lines of the user prompt
    timers          \* webhook: the callbacks handed to setTimeout, in order

CoreVars == <<call, env, pc, net, result>>
ReadLocals == <<def, branchesToTry, tryIdx, lastError>>
WsVars == <<wcall, wpc, tmpDir, wres, fx, issues, testsPass, outdatedCount, dirs>>

AiLocals == <<prMeta, llm, upstream, prompt>>
HookVars == <<timers>>

vars == <<CoreVars, ReadLocals, WsVars, AiLocals, HookVars>>

----------------------------------------------------------------------------
(* Bounds *)

MaxUrlLen == 5
MaxDirs == 2        \* names mkdtemp can draw from
MaxLintLines == 2   \* lines of lint output that mention an error
MaxPkgs == 1        \* entries npm outdated / npm audit can report
MaxCount == 2       \* largest number printed in a test summary
MaxOutLen == 2      \* phrases in the captured output of a test run
MaxLabelLen == 2    \* characters in a label of the completion
MaxLlmLabels == 2   \* labels in the completion
MaxCap == 2         \* largest maxLabels argument
MaxSegLen == 3      \* tokens after github.com/<owner>/ in a URL to resolve
MaxTextLen == 200000  \* characters in the longest text GitHub or the caller supplies
MaxCommits == 2     \* commits in a push delivery

----------------------------------------------------------------------------
(* Coordinate resolution *)

UrlTokens == {"github.com", "/", "a", ".git"}

RECURSIVE SeqsUpTo(_, _)
SeqsUpTo(S, n) ==
    IF n = 0 THEN {<<>>}
    ELSE LET shorter == SeqsUpTo(S, n - 1)
         IN  shorter \cup {Append(s, x) : s \in {t \in shorter : Len(t) = n - 1}, x \in S}

AllUrls == SeqsUpTo(UrlTokens, MaxUrlLen)

GoodUrl == <<"github.com", "/", "a", "/", "a">>
BadUrl == <<"a", "/", "a">>

\* Length of the maximal run of non-"/" tokens of s that starts at position i: [^\/]+
RECURSIVE RunLen(_, _)
RunLen(s, i) == IF i > Len(s) \/ s[i] = "/" THEN 0 ELSE 1 + RunLen(s, i + 1)

\* The pattern /github\.com\/([^\/]+)\/([^\/]+)/ matches s starting at position i.
MatchAt(s, i) ==
    /\ i + 1 <= Len(s)
    /\ s[i] = "github.com"
    /\ s[i + 1] = "/"
    /\ LET n == RunLen(s, i + 2)
       IN  /\ n >= 1
           /\ i + 2 + n <= Len(s)
           /\ s[i + 2 + n] = "/"
           /\ RunLen(s, i + 3 + n) >= 1

\* String.prototype.replace(pattern, '') with a string pattern: the first occurrence only.
RECURSIVE ReplaceFirst(_, _)
ReplaceFirst(s, t) ==
    IF s = <<>> THEN <<>>
    ELSE IF Head(s) = t THEN Tail(s)
    ELSE <<Head(s)>> \o ReplaceFirst(Tail(s), t)

NoMatch == [ok |-> FALSE, owner |-> <<>>, repo |-> <<>>]

extractRepoIdentifiers(repoUrl) ==
    LET starts == {i \in 1..Len(repoUrl) : MatchAt(repoUrl, i)}
    IN  IF starts = {} THEN NoMatch
        ELSE LET i == CHOOSE k \in starts : \A j \in starts : k <= j
                 n == RunLen(repoUrl, i + 2)
                 m == RunLen(repoUrl, i + 3 + n)
             IN  [ok    |-> TRUE,
                  owner |-> SubSeq(repoUrl, i + 2, i + 1 + n),
                  repo  |-> ReplaceFirst(SubSeq(repoUrl, i + 3 + n, i + 2 + n + m), ".git")]

----------------------------------------------------------------------------
(* Values shared by the operations *)

NoBranch == ""          \* branch === undefined (or ''): falsy
Null == "null"
Branches == {"main", "master", "dev"}

NoError == [kind |-> "none", branch |-> NoBranch]

NoResult == [kind |-> "none"]
Returned(v) == [kind |-> "returned", value |-> v]
Raised(name, last) == [kind |-> "raised", error |-> name, last |-> last]

\* One fetch(): what was asked (kind of endpoint, branch or ref) and how it was answered.
Request(k, ref, resp) == [kind |-> k, ref |-> ref, resp |-> resp]

\* The invocations that use a temporary workspace run as asynchronous tasks.
Procs == {"p1", "p2"}
DirNames == 1..MaxDirs
NoDir == 0
NoUrl == <<>>           \* repoUrl undefined or '': falsy

NotCalled == [op |-> "none"]

\* No GitHub or AI operation is in progress.
IdleCore ==
    /\ call = NotCalled
    /\ env = [ghToken |-> TRUE, openaiKey |-> TRUE]
    /\ pc = "done"
    /\ net = <<>>
    /\ result = NoResult

IdleRead ==
    /\ def = Null
    /\ branchesToTry = <<>>
    /\ tryIdx = 1
    /\ lastError = NoError

\* No PR metadata fetched, no completion received.
NoMeta == [comments_url |-> FALSE, diff_url |-> FALSE, title |-> ""]
NoAnswer == [kind |-> "none"]

NoUpstream ==
    [repo |-> 0, title |-> 0, author |-> 0, body |-> 0, diff |-> 0, commits |-> 0,
     files |-> 0, question |-> 0]
NoPrompt == <<>>

IdleAi == prMeta = NoMeta /\ llm = NoAnswer /\ upstream = NoUpstream /\ prompt = NoPrompt

\* No webhook delivery has scheduled anything.
IdleHook == timers = <<>>

\* The state of a workspace task before its handler has run a step.
FreshWs(calls) ==
    /\ wcall = calls
    /\ wpc = [p \in Procs |-> IF calls[p].op = "none" THEN "done" ELSE "call"]
    /\ tmpDir = [p \in Procs |-> NoDir]
    /\ wres = [p \in Procs |-> NoResult]
    /\ fx = [p \in Procs |-> <<>>]
    /\ issues = [p \in Procs |-> <<>>]
    /\ testsPass = [p \in Procs |-> TRUE]
    /\ outdatedCount = [p \in Procs |-> 0]
    /\ dirs = {}

IdleWs == FreshWs([p \in Procs |-> NotCalled])

----------------------------------------------------------------------------
(* readFileFromRepo *)

\* Answers to GET /repos/{owner}/{repo}: fetch rejects, a non-2xx status, a 2xx
\* status whose body is not JSON, a 2xx body without default_branch, a 2xx body
\* naming the default branch.
DefaultResponses ==
    {[kind |-> k, branch |-> Null] : k \in {"network", "http", "unparseable", "nodefault"}}
        \cup {[kind |-> "ok", branch |-> b] : b \in Branches}

\* Null when the status is not ok or default_branch is missing; a rejected fetch
\* and an unparseable body throw, which the caller's empty catch turns into
\* "no default branch" as well.
getDefaultBranch(resp) == IF resp.kind = "ok" THEN resp.branch ELSE Null

\* Answers to GET /repos/{repo}/contents/{path}?ref={branch}.
ContentResponses == {"file", "directory", "empty", "badformat", "http", "network"}

\* Answers to GET /repos/{repo}/branches/{branch}.
BranchResponses == {"ok", "http", "network"}

doesBranchExist(resp) == resp = "ok"

Contains(s, x) == \E i \in 1..Len(s) : s[i] = x

RECURSIVE Dedup(_)
Dedup(s) ==
    IF s = <<>> THEN <<>>
    ELSE LET rest == Dedup(SubSeq(s, 1, Len(s) - 1))
         IN  IF Contains(rest, s[Len(s)]) THEN rest ELSE Append(rest, s[Len(s)])

\* Mutant: "main" and "master" are appended whatever the list already holds.
BranchCandidatesAlwaysFallback(branch, d) ==
    Dedup((IF branch # NoBranch THEN <<branch>> ELSE <<>>)
          \o (IF d # Null THEN <<d>> ELSE <<>>)
          \o <<"main", "master">>)

\* Mutant: the default branch is pushed without looking for it in the list.
BranchCandidatesNoDedup(branch, d) ==
    LET explicit == IF branch # NoBranch THEN <<branch>> ELSE <<>>
        withDef  == IF d # Null THEN Append(explicit, d) ELSE explicit
    IN  IF Len(withDef) = 0 THEN <<"main", "master">> ELSE withDef

\* The candidate list: the explicit branch, then the default branch unless already
\* listed, and "main", "master" only when the list is still empty.
BranchCandidates(branch, d) ==
    LET explicit == IF branch # NoBranch THEN <<branch>> ELSE <<>>
        withDef  == IF d # Null /\ ~Contains(explicit, d) THEN Append(explicit, d) ELSE explicit
    IN  IF Len(withDef) = 0 THEN <<"main", "master">> ELSE withDef

\* Coordinates are resolved and GITHUB_TOKEN is read before anything else.
ReadFileCall ==
    /\ call.op = "readFile"
    /\ pc = "call"
    /\ IF ~extractRepoIdentifiers(call.url).ok
         THEN result' = Raised("Invalid GitHub URL", NoError) /\ pc' = "done"
         ELSE IF ~env.ghToken
              THEN result' = Raised("GITHUB_TOKEN not set", NoError) /\ pc' = "done"
              ELSE result' = result /\ pc' = "default"
    /\ UNCHANGED <<call, env, net, ReadLocals, WsVars, AiLocals, HookVars>>

\* The default-branch lookup and the construction of branchesToTry.
ReadFileDefault ==
    /\ call.op = "readFile"
    /\ pc = "default"
    /\ \E r \in DefaultResponses :
          /\ net' = Append(net, Request("repo", NoBranch, r.kind))
          /\ def' = getDefaultBranch(r)
          /\ branchesToTry' = BranchCandidates(call.branch, getDefaultBranch(r))
    /\ tryIdx' = 1
    /\ pc' = "try"
    /\ UNCHANGED <<call, env, result, lastError, WsVars, AiLocals, HookVars>>

\* Mutant: a file payload is recorded as the result but the loop goes on.
ReadFileTryKeepsGoing ==
    /\ call.op = "readFile"
    /\ pc = "try"
    /\ tryIdx <= Len(branchesToTry)
    /\ \E r \in ContentResponses :
          LET tryBranch == branchesToTry[tryIdx]
          IN  /\ net' = Append(net, Request("contents", tryBranch, r))
              /\ IF r = "file"
                   THEN result' = Returned([branch |-> tryBranch]) /\ lastError' = lastError
                   ELSE lastError' = [kind |-> r, branch |-> tryBranch] /\ result' = result
              /\ tryIdx' = tryIdx + 1
    /\ UNCHANGED <<call, env, pc, def, branchesToTry, WsVars, AiLocals, HookVars>>

\* One iteration of the loop over branchesToTry: a 2xx file payload returns, any
\* other answer (and any throw inside the try) is kept in lastError and the loop
\* moves on.
ReadFileTry ==
    /\ call.op = "readFile"
    /\ pc = "try"
    /\ tryIdx <= Len(branchesToTry)
    /\ \E r \in ContentResponses :
          LET tryBranch == branchesToTry[tryIdx]
          IN  /\ net' = Append(net, Request("contents", tryBranch, r))
              /\ IF r = "file"
                   THEN /\ result' = Returned([branch |-> tryBranch])
                        /\ pc' = "done"
                        /\ UNCHANGED <<tryIdx, lastError>>
                   ELSE /\ lastError' = [kind |-> r, branch |-> tryBranch]
                        /\ tryIdx' = tryIdx + 1
                        /\ UNCHANGED <<result, pc>>
    /\ UNCHANGED <<call, env, def, branchesToTry, WsVars, AiLocals, HookVars>>

\* After the loop: one probe of the branch to explain; the "Branch not found"
\* error thrown inside the try is swallowed by its own catch, and the final
\* error carries lastError.
ReadFileExplain ==
    /\ call.op = "readFile"
    /\ pc = "try"
    /\ tryIdx > Len(branchesToTry)
    /\ \E r \in BranchResponses :
          LET branchToExplain == IF call.branch # NoBranch THEN call.branch ELSE branchesToTry[1]
          IN  net' = Append(net, Request("branch", branchToExplain, r))
    /\ result' = Raised("Failed to fetch file", lastError)
    /\ pc' = "done"
    /\ UNCHANGED <<call, env, ReadLocals, WsVars, AiLocals, HookVars>>

ReadFileNext == ReadFileCall \/ ReadFileDefault \/ ReadFileTry \/ ReadFileExplain

InitRead ==
    /\ IdleHook
    /\ call \in [op : {"readFile"}, url : {GoodUrl, BadUrl}, branch : Branches \cup {NoBranch}]
    /\ env \in [ghToken : BOOLEAN, openaiKey : {TRUE}]
    /\ pc = "call"
    /\ net = <<>>
    /\ result = NoResult
    /\ IdleRead
    /\ IdleWs
    /\ IdleAi

SpecRead == InitRead /\ [][ReadFileNext]_vars

\* The explicit branch (if given) followed by the looked-up default branch (if any).
ExplicitAndDefault ==
    (IF call.branch # NoBranch THEN <<call.branch>> ELSE <<>>)
        \o (IF def # Null THEN <<def>> ELSE <<>>)

\* readFile has finished the default-branch lookup and built its candidate list.
ListBuilt == call.op = "readFile" /\ pc \in {"try", "done"} /\ Len(net) >= 1

IsContentRequest(q) == q.kind = "contents"
ContentRequests == SelectSeq(net, IsContentRequest)

\* C3: the content requests follow the candidate list in order; a request answered
\* with a file payload is the last one issued and its branch is the one returned;
\* readFile returns only from such a request; with no explicit branch and default
\* branch main, a file on main is returned from the first content request.
C3_InOrderFirstSuccess ==
    call.op = "readFile" =>
        LET cr == ContentRequests
        IN  /\ Len(cr) <= Len(branchesToTry)
            /\ \A i \in 1..Len(cr) : cr[i].ref = branchesToTry[i]
            /\ \A i \in 1..Len(cr) :
                  cr[i].resp = "file" =>
                      i = Len(cr) /\ result = Returned([branch |-> cr[i].ref])
            /\ result.kind = "returned" => Len(cr) >= 1 /\ cr[Len(cr)].resp = "file"
            /\ (call.branch = NoBranch /\ def = "main" /\ Len(cr) >= 1 /\ cr[1].resp = "file")
                  => result = Returned([branch |-> "main"]) /\ Len(cr) = 1

C3_Witness ==
    /\ call.op = "readFile"
    /\ call.branch = NoBranch
    /\ result = Returned([branch |-> "master"])
    /\ Len(ContentRequests) = 2
    /\ ContentRequests[1].resp = "http"

----------------------------------------------------------------------------
(* Captured output of a test run and its classification *)

\* The captured text is a sequence of phrases.  A numbered phrase is "n failed",
\* "n tests failed", "(cross) n", "n passed", "n tests passed", "(check) n" or
\* "n total"; "FAIL" and "PASS" are words holding 'fail' and 'pass' with no count.
NumberedKinds == {"failed", "tfailed", "cross", "passed", "tpassed", "check", "total"}
Phrases ==
    {[k |-> kk, n |-> nn] : kk \in NumberedKinds, nn \in 0..MaxCount}
        \cup {[k |-> w, n |-> 0] : w \in {"FAIL", "PASS"}}
Outputs == SeqsUpTo(Phrases, MaxOutLen)

None == -1

\* String.prototype.match with one of the patterns: the count of the first phrase
\* of the kind, None when there is no match.
FirstNum(out, kind) ==
    LET at == {i \in 1..Len(out) : out[i].k = kind}
    IN  IF at = {} THEN None ELSE out[CHOOSE i \in at : \A j \in at : i <= j].n

\* a.match(A) || a.match(B)
OrElse(a, b) == IF a # None THEN a ELSE b

\* output.toLowerCase().includes(word)
IncludesFail(out) == \E i \in 1..Len(out) : out[i].k \in {"failed", "tfailed", "FAIL"}
IncludesPass(out) == \E i \in 1..Len(out) : out[i].k \in {"passed", "tpassed", "PASS"}

TestRun(passed, total, failed, errors) ==
    [passed |-> passed, totalTests |-> total, failedTests |-> failed, errors |-> errors]

\* runTests, local mode: the result built from the output of a test command that
\* exited with status 0.
LocalTestResult(out) ==
    LET failedMatch == OrElse(FirstNum(out, "tfailed"), FirstNum(out, "cross"))
        passedMatch == OrElse(FirstNum(out, "tpassed"), FirstNum(out, "check"))
        totalMatch  == FirstNum(out, "total")
        failedTests == IF failedMatch # None THEN failedMatch ELSE 0
        passedTests == IF passedMatch # None THEN passedMatch ELSE 0
        totalTests  == IF totalMatch # None THEN totalMatch ELSE failedTests + passedTests
    IN  TestRun(failedTests = 0 /\ totalTests > 0, totalTests, failedTests,
                IF failedTests > 0 THEN <<"test(s) failed">> ELSE <<>>)

\* runTests, remote mode: the result built from the output of the posted job.
RemoteTestResult(out) ==
    LET failedMatch == FirstNum(out, "failed")
        passedMatch == FirstNum(out, "passed")
        failedTests == IF failedMatch # None THEN failedMatch
                       ELSE IF IncludesFail(out) THEN 1 ELSE 0
        totalTests  == IF passedMatch # None THEN passedMatch + failedTests
                       ELSE IF failedTests > 0 THEN failedTests ELSE 0
    IN  TestRun(failedTests = 0 /\ IncludesPass(out), totalTests, failedTests,
                IF failedTests > 0 THEN <<"Tests reported failures">> ELSE <<>>)

\* The result of every path of runTests on which no test output was classified.
TestsNotRun(msg) == TestRun(FALSE, 0, 0, <<msg>>)

----------------------------------------------------------------------------
(* Operations that clone into a temporary workspace *)

WsOps == {"analyzeRepository", "runTests", "checkDependencies", "formatCode", "fixLintErrors"}

Set(f, p, v) == [f EXCEPT ![p] = v]

\* One side effect of task p and whether it succeeded: "fetch meta", "fetch ci",
\* "mkdtemp", "clone", "exec" (a subprocess) or "rm".
Effect(p, e, ok) == fx' = [fx EXCEPT ![p] = Append(@, [e |-> e, ok |-> ok])]

\* A subprocess of task p that exited with status 0, and the text it printed.
Captured(p, out) == fx' = [fx EXCEPT ![p] = Append(@, [e |-> "exec", ok |-> TRUE, out |-> out])]

\* The try block is left with outcome r; the finally block runs next.
Finish(p, r) == wres' = Set(wres, p, r) /\ wpc' = Set(wpc, p, "finally")

\* The handler goes on to its next await.
Goto(p, label) == wpc' = Set(wpc, p, label) /\ wres' = wres

LintCap == 5

LintIssue == [type |-> "lint_error", severity |-> "medium"]
CiIssue == [type |-> "test_failure", severity |-> "high"]
BuildError == [type |-> "build_error", severity |-> "critical"]

Analysis(pass, found) == [testsPass |-> pass, issues |-> found]

\* analyzeRepository's outer catch.
AnalysisFailed == Returned(Analysis(FALSE, <<BuildError>>))

DepsFallback == [outdated |-> 0, vulnerabilities |-> 0, summary |-> "No package.json found or unable to check dependencies"]

\* Mutant: analyzeRepository and runTests have no outer catch.
OnThrowUncaught(op, msg) == Raised(msg, NoError)

\* What an exception thrown in the try block becomes: analyzeRepository and
\* runTests catch it and return their typed result, the other three let it go.
OnThrow(op, msg) ==
    CASE op = "analyzeRepository" -> AnalysisFailed
      [] op = "runTests" -> Returned(TestsNotRun(msg))
      [] OTHER -> Raised(msg, NoError)

\* Whether the rm in the finally block sits in its own try/catch.
CleanupGuarded(op) == op \in {"analyzeRepository", "runTests"}

AfterClone(op) ==
    CASE op = "analyzeRepository" -> "lint"
      [] op = "checkDependencies" -> "outdated"
      [] OTHER -> "exec"

Repeat(x, n) == [i \in 1..n |-> x]
Min(a, b) == IF a <= b THEN a ELSE b

AnalyzeCall(p) ==
    /\ wcall[p].op = "analyzeRepository"
    /\ wpc[p] = "call"
    /\ IF ~extractRepoIdentifiers(wcall[p].url).ok
         THEN Finish(p, AnalysisFailed)
         ELSE Goto(p, "meta")
    /\ UNCHANGED <<wcall, tmpDir, fx, issues, testsPass, outdatedCount, dirs, CoreVars, ReadLocals, AiLocals, HookVars>>

\* GET /repos/{owner}/{repo}: a rejected fetch, a non-2xx status and an
\* unparseable body all throw into the outer catch.
AnalyzeMeta(p) ==
    /\ wcall[p].op = "analyzeRepository"
    /\ wpc[p] = "meta"
    /\ \E r \in {"network", "http", "unparseable", "ok"} :
          /\ Effect(p, "fetch meta", r = "ok")
          /\ IF r = "ok" THEN Goto(p, "mkdtemp") ELSE Finish(p, AnalysisFailed)
    /\ UNCHANGED <<wcall, tmpDir, issues, testsPass, outdatedCount, dirs, CoreVars, ReadLocals, AiLocals, HookVars>>

\* runTests: the remote block, the required URL, then the local run.
RunTestsCall(p) ==
    /\ wcall[p].op = "runTests"
    /\ wpc[p] = "call"
    /\ IF wcall[p].nosana /\ wcall[p].url # NoUrl
         THEN IF ~wcall[p].market
              THEN /\ wres' = Set(wres, p, Returned(TestsNotRun("NOSANA_MARKET missing")))
                   /\ wpc' = Set(wpc, p, "done")
              ELSE Goto(p, "remote")
         ELSE IF wcall[p].url = NoUrl
              THEN /\ wres' = Set(wres, p, Returned(TestsNotRun("Repository URL is required to run tests")))
                   /\ wpc' = Set(wpc, p, "done")
              ELSE Goto(p, "mkdtemp")
    /\ UNCHANGED <<wcall, tmpDir, fx, issues, testsPass, outdatedCount, dirs, CoreVars, ReadLocals, AiLocals, HookVars>>

\* nosana job post ... --wait: the job is executed without a timeout; its output
\* is classified, a rejection becomes the errors entry.
RunTestsRemote(p) ==
    /\ wcall[p].op = "runTests"
    /\ wpc[p] = "remote"
    /\ \/ /\ Effect(p, "exec", FALSE)
          /\ wres' = Set(wres, p, Returned(TestsNotRun("Failed to run tests via Nosana")))
       \/ \E out \in Outputs :
             /\ Captured(p, out)
             /\ wres' = Set(wres, p, Returned(RemoteTestResult(out)))
    /\ wpc' = Set(wpc, p, "done")
    /\ UNCHANGED <<wcall, tmpDir, issues, testsPass, outdatedCount, dirs, CoreVars, ReadLocals, AiLocals, HookVars>>

\* checkDependencies, formatCode and fixLintErrors start with mkdtemp.
ToolCall(p) ==
    /\ wcall[p].op \in {"checkDependencies", "formatCode", "fixLintErrors"}
    /\ wpc[p] = "call"
    /\ Goto(p, "mkdtemp")
    /\ UNCHANGED <<wcall, tmpDir, fx, issues, testsPass, outdatedCount, dirs, CoreVars, ReadLocals, AiLocals, HookVars>>

\* Mutant: the directory name is not checked against the directories that exist.
MkdtempAnyName(p) ==
    /\ wpc[p] = "mkdtemp"
    /\ \/ /\ Effect(p, "mkdtemp", FALSE)
          /\ Finish(p, OnThrow(wcall[p].op, "mkdtemp failed"))
          /\ UNCHANGED <<tmpDir, dirs>>
       \/ \E d \in DirNames :
             /\ Effect(p, "mkdtemp", TRUE)
             /\ tmpDir' = Set(tmpDir, p, d)
             /\ dirs' = dirs \cup {d}
             /\ Goto(p, "clone")
    /\ UNCHANGED <<wcall, issues, testsPass, outdatedCount, CoreVars, ReadLocals, AiLocals, HookVars>>

\* mkdtemp creates a directory that did not exist, or rejects.
Mkdtemp(p) ==
    /\ wpc[p] = "mkdtemp"
    /\ \/ /\ Effect(p, "mkdtemp", FALSE)
          /\ Finish(p, OnThrow(wcall[p].op, "mkdtemp failed"))
          /\ UNCHANGED <<tmpDir, dirs>>
       \/ \E d \in DirNames \ dirs :
             /\ Effect(p, "mkdtemp", TRUE)
             /\ tmpDir' = Set(tmpDir, p, d)
             /\ dirs' = dirs \cup {d}
             /\ Goto(p, "clone")
    /\ UNCHANGED <<wcall, issues, testsPass, outdatedCount, CoreVars, ReadLocals, AiLocals, HookVars>>

\* git clone --depth 1 into tmpDir (and, in analyzeRepository, git log -1).
Clone(p) ==
    /\ wpc[p] = "clone"
    /\ \E r \in {"ok", "failed"} \cup (IF wcall[p].op = "analyzeRepository" THEN {"log failed"} ELSE {}) :
          /\ Effect(p, "clone", r = "ok")
          /\ IF r = "ok"
             THEN Goto(p, AfterClone(wcall[p].op))
             ELSE Finish(p, OnThrow(wcall[p].op, "clone failed"))
    /\ UNCHANGED <<wcall, tmpDir, issues, testsPass, outdatedCount, dirs, CoreVars, ReadLocals, AiLocals, HookVars>>

\* The lint command, with a 60 s timeout: on exit 0 one issue per line that has
\* 'error' (at most LintCap); on a rejection (non-zero exit, timeout, output over
\* maxBuffer) one issue if the captured output has 'error'.  Neither throws out
\* of the inner try.
LintOutcomes ==
    {[exit |-> "ok", errorLines |-> n] : n \in 0..MaxLintLines}
        \cup {[exit |-> "failed", errorLines |-> n] : n \in 0..1}

AnalyzeLint(p) ==
    /\ wcall[p].op = "analyzeRepository"
    /\ wpc[p] = "lint"
    /\ \E r \in LintOutcomes :
          /\ Effect(p, "exec", r.exit = "ok")
          /\ issues' = Set(issues, p, Repeat(LintIssue, Min(r.errorLines, LintCap)))
    /\ Goto(p, "ci")
    /\ UNCHANGED <<wcall, tmpDir, testsPass, outdatedCount, dirs, CoreVars, ReadLocals, AiLocals, HookVars>>

\* The CI status check and the return statement of the try block.
AnalyzeCI(p) ==
    /\ wcall[p].op = "analyzeRepository"
    /\ wpc[p] = "ci"
    /\ \E r \in {"network", "http", "unparseable", "no failed runs", "failed runs"} :
          LET pass  == IF r = "failed runs" THEN FALSE ELSE testsPass[p]
              found == IF r = "failed runs" THEN Append(issues[p], CiIssue) ELSE issues[p]
          IN  /\ Effect(p, "fetch ci", r \in {"no failed runs", "failed runs"})
              /\ testsPass' = Set(testsPass, p, pass)
              /\ issues' = Set(issues, p, found)
              /\ Finish(p, Returned(Analysis(pass /\ Len(found) = 0, found)))
    /\ UNCHANGED <<wcall, tmpDir, outdatedCount, dirs, CoreVars, ReadLocals, AiLocals, HookVars>>

\* The test command, with a 120 s timeout.
RunTestsExec(p) ==
    /\ wcall[p].op = "runTests"
    /\ wpc[p] = "exec"
    /\ \/ /\ Effect(p, "exec", FALSE)
          /\ Finish(p, Returned(TestRun(FALSE, 0, 1, <<"Test execution failed">>)))
       \/ \E out \in Outputs :
             /\ Captured(p, out)
             /\ Finish(p, Returned(LocalTestResult(out)))
    /\ UNCHANGED <<wcall, tmpDir, issues, testsPass, outdatedCount, dirs, CoreVars, ReadLocals, AiLocals, HookVars>>

\* What an npm --json command can do: exit non-zero, print something JSON.parse
\* rejects, or print an object with n entries (none without a manifest).
NpmOutcomes(manifest) ==
    {[exit |-> e, n |-> 0] : e \in {"failed", "unparseable"}}
        \cup {[exit |-> "ok", n |-> k] : k \in 0..(IF manifest THEN MaxPkgs ELSE 0)}

\* The npm command cmd of task p ended as r.
Npm(p, cmd, r) ==
    fx' = [fx EXCEPT ![p] = Append(@, [e |-> "exec", ok |-> r.exit # "failed",
                                       cmd |-> cmd, exit |-> r.exit, n |-> r.n])]

DepsOutdated(p) ==
    /\ wcall[p].op = "checkDependencies"
    /\ wpc[p] = "outdated"
    /\ \E r \in NpmOutcomes(wcall[p].manifest) :
          /\ Npm(p, "npm outdated --json", r)
          /\ IF r.exit = "ok"
             THEN outdatedCount' = Set(outdatedCount, p, r.n) /\ Goto(p, "audit")
             ELSE outdatedCount' = outdatedCount /\ Finish(p, Returned(DepsFallback))
    /\ UNCHANGED <<wcall, tmpDir, issues, testsPass, dirs, CoreVars, ReadLocals, AiLocals, HookVars>>

DepsAudit(p) ==
    /\ wcall[p].op = "checkDependencies"
    /\ wpc[p] = "audit"
    /\ \E r \in NpmOutcomes(wcall[p].manifest) :
          /\ Npm(p, "npm audit --json", r)
          /\ IF r.exit = "ok"
             THEN Finish(p, Returned([outdated |-> outdatedCount[p], vulnerabilities |-> r.n,
                                      summary |-> "Found outdated packages and vulnerabilities"]))
             ELSE Finish(p, Returned(DepsFallback))
    /\ UNCHANGED <<wcall, tmpDir, issues, testsPass, outdatedCount, dirs, CoreVars, ReadLocals, AiLocals, HookVars>>

\* npx prettier --write / npm run lint -- --fix, without a timeout.
ToolExec(p) ==
    /\ wcall[p].op \in {"formatCode", "fixLintErrors"}
    /\ wpc[p] = "exec"
    /\ \E r \in {"ok", "failed"} :
          /\ Effect(p, "exec", r = "ok")
          /\ Finish(p, Returned([success |-> r = "ok"]))
    /\ UNCHANGED <<wcall, tmpDir, issues, testsPass, outdatedCount, dirs, CoreVars, ReadLocals, AiLocals, HookVars>>

\* The steps that await a subprocess.
ExecSteps == {"remote", "lint", "exec", "outdated", "audit"}

\* The timeout option of the exec call of a step, in milliseconds.
NoTimeout == 0
ExecTimeout(op, step) ==
    CASE op = "analyzeRepository" /\ step = "lint" -> 60000
      [] op = "runTests" /\ step = "exec" -> 120000
      [] OTHER -> NoTimeout

\* A subprocess that never exits.  With a timeout the child is killed and the exec
\* rejects, which is the failed outcome of the step; without one the await never
\* settles and the handler stays where it is.
SubprocessHangs(p) ==
    /\ wpc[p] \in ExecSteps
    /\ ExecTimeout(wcall[p].op, wpc[p]) = NoTimeout
    /\ Effect(p, "hang", FALSE)
    /\ Goto(p, "hung")
    /\ UNCHANGED <<wcall, tmpDir, issues, testsPass, outdatedCount, dirs, CoreVars, ReadLocals, AiLocals, HookVars>>

\* Mutant: the directory is removed at the end of the try block only, so a path
\* that threw skips the removal.
ReleaseOnSuccessOnly(p) ==
    /\ wpc[p] = "finally"
    /\ wpc' = Set(wpc, p, "done")
    /\ IF tmpDir[p] = NoDir \/ wres[p].kind = "raised" \/ wres[p] = AnalysisFailed
       THEN UNCHANGED <<fx, dirs, wres>>
       ELSE /\ Effect(p, "rm", TRUE)
            /\ dirs' = dirs \ {tmpDir[p]}
            /\ wres' = wres
    /\ UNCHANGED <<wcall, tmpDir, issues, testsPass, outdatedCount, CoreVars, ReadLocals, AiLocals, HookVars>>

\* The finally block: rm(tmpDir, {recursive, force}) when tmpDir is set.  The rm
\* can reject; only analyzeRepository and runTests catch that.
Release(p) ==
    /\ wpc[p] = "finally"
    /\ wpc' = Set(wpc, p, "done")
    /\ IF tmpDir[p] = NoDir
       THEN UNCHANGED <<fx, dirs, wres>>
       ELSE \E r \in {"ok", "failed"} :
               /\ Effect(p, "rm", r = "ok")
               /\ dirs' = IF r = "ok" THEN dirs \ {tmpDir[p]} ELSE dirs
               /\ wres' = IF r = "failed" /\ ~CleanupGuarded(wcall[p].op)
                          THEN Set(wres, p, Raised("rm failed", NoError))
                          ELSE wres
    /\ UNCHANGED <<wcall, tmpDir, issues, testsPass, outdatedCount, CoreVars, ReadLocals, AiLocals, HookVars>>

WsNext ==
    \E p \in Procs :
        \/ AnalyzeCall(p) \/ AnalyzeMeta(p) \/ AnalyzeLint(p) \/ AnalyzeCI(p)
        \/ RunTestsCall(p) \/ RunTestsRemote(p) \/ RunTestsExec(p)
        \/ ToolCall(p) \/ DepsOutdated(p) \/ DepsAudit(p) \/ ToolExec(p)
        \/ Mkdtemp(p) \/ Clone(p) \/ SubprocessHangs(p) \/ Release(p)

\* repoUrl is a required string everywhere but in runTests, where it is optional.
WsUrls(op) == {GoodUrl, BadUrl} \cup (IF op = "runTests" THEN {NoUrl} ELSE {})

WsCalls ==
    {[op |-> o, url |-> u, nosana |-> FALSE, market |-> FALSE, manifest |-> TRUE] :
        o \in {"analyzeRepository", "formatCode", "fixLintErrors"}, u \in WsUrls("formatCode")}
    \cup {[op |-> "runTests", url |-> u, nosana |-> n, market |-> m, manifest |-> TRUE] :
        u \in WsUrls("runTests"), n \in BOOLEAN, m \in BOOLEAN}
    \cup {[op |-> "checkDependencies", url |-> u, nosana |-> FALSE, market |-> FALSE, manifest |-> m] :
        u \in WsUrls("checkDependencies"), m \in BOOLEAN}

\* One workspace invocation at a time.
InitWs ==
    /\ IdleHook
    /\ IdleCore
    /\ IdleRead
    /\ IdleAi
    /\ \E c \in WsCalls : FreshWs([p \in Procs |-> IF p = "p1" THEN c ELSE NotCalled])

SpecWs == InitWs /\ [][WsNext]_vars

\* The event loop runs a handler whenever one of its awaits has settled.
SpecWsLive == SpecWs /\ WF_vars(WsNext)

\* Task p has returned or raised to its caller.
Finished(p) == wcall[p].op \in WsOps /\ wpc[p] = "done"

Did(p, e) == \E i \in 1..Len(fx[p]) : fx[p][i].e = e
DidOk(p, e) == \E i \in 1..Len(fx[p]) : fx[p][i].e = e /\ fx[p][i].ok
Failure(p, e) == \E i \in 1..Len(fx[p]) : fx[p][i].e = e /\ ~fx[p][i].ok

\* C1 as stated: once an operation that created a temporary directory has returned
\* or raised, on whatever path, that directory no longer exists.
C1_DirectoryRemoved ==
    \A p \in Procs : (Finished(p) /\ tmpDir[p] # NoDir) => tmpDir[p] \notin dirs

\* C1 amended: once an operation that created a temporary directory has returned or
\* raised, on whatever path, it has run the recursive forced removal of that
\* directory exactly once, as its last step, and the directory no longer exists
\* unless that removal itself failed.
C1_RemovalAlwaysRun ==
    \A p \in Procs :
        (Finished(p) /\ tmpDir[p] # NoDir) =>
            /\ Cardinality({i \in 1..Len(fx[p]) : fx[p][i].e = "rm"}) = 1
            /\ fx[p][Len(fx[p])].e = "rm"
            /\ (fx[p][Len(fx[p])].ok => tmpDir[p] \notin dirs)

\* A clone failure in checkDependencies: the error is raised and the directory is gone.
C1_Witness ==
    /\ Finished("p1")
    /\ wcall["p1"].op = "checkDependencies"
    /\ Failure("p1", "clone")
    /\ wres["p1"].kind = "raised"
    /\ tmpDir["p1"] # NoDir
    /\ tmpDir["p1"] \notin dirs

MalformedUrl(p) == ~extractRepoIdentifiers(wcall[p].url).ok

\* C8 as stated, for the workspace operations: an operation called with a malformed
\* repository URL issues no HTTP request, creates no temporary directory and starts
\* no clone and no subprocess.
C8_NothingStartedOnBadUrl ==
    \A p \in Procs : (wcall[p].op \in WsOps /\ MalformedUrl(p)) => fx[p] = <<>>

Guarded(p) == wcall[p].op \in {"analyzeRepository", "runTests"}

\* The typed failure result: testsPass=false with a critical build_error, or
\* passed=false with a non-empty errors list.
FailedResult(p) ==
    /\ wres[p].kind = "returned"
    /\ IF wcall[p].op = "analyzeRepository"
       THEN /\ ~wres[p].value.testsPass
            /\ \E i \in 1..Len(wres[p].value.issues) : wres[p].value.issues[i] = BuildError
       ELSE /\ ~wres[p].value.passed
            /\ wres[p].value.errors # <<>>

\* The failures C9 lists.
ListedFailure(p) ==
    \/ MalformedUrl(p)
    \/ Failure(p, "fetch meta")
    \/ Failure(p, "clone")
    \/ Failure(p, "exec")
    \/ Failure(p, "rm")

ReportedFailure(p) ==
    IF wcall[p].op = "analyzeRepository"
    THEN \/ MalformedUrl(p)
         \/ Failure(p, "fetch meta")
         \/ Failure(p, "mkdtemp")
         \/ Failure(p, "clone")
    ELSE \/ wcall[p].url = NoUrl
         \/ (wcall[p].nosana /\ ~wcall[p].market)
         \/ Failure(p, "mkdtemp")
         \/ Failure(p, "clone")
         \/ Failure(p, "exec")

C10_NoManifestResult ==
    \A p \in Procs :
        (Finished(p) /\ wcall[p].op = "checkDependencies" /\ ~wcall[p].manifest /\ DidOk(p, "clone")) =>
            /\ wres[p].kind = "returned"
            /\ wres[p].value.outdated = 0
            /\ wres[p].value.vulnerabilities = 0
            /\ wres[p].value.summary # ""

----------------------------------------------------------------------------
(* GitHub operations with a single request, and the AI pull-request operations *)

SimpleOps ==
    {"listFiles", "findFile", "createIssue", "commentOnIssue", "closeIssue",
     "mergePullRequest", "triggerWorkflow", "getWorkflowStatus"}

\* The operations that publish their artifact as a PR comment.
CommentOps ==
    {"aiImprovePullRequest", "aiAskPullRequest", "aiDraftChangelog", "aiReviewPullRequest"}

AiOps == CommentOps \cup {"aiDescribePullRequest", "generateAndApplyLabels"}

\* GITHUB_TOKEN is required by the GitHub operations and by label generation; the
\* other AI operations fall back to ''.
NeedsToken(op) == op \in SimpleOps \cup {"generateAndApplyLabels"}

\* aiReviewPullRequest and aiDescribePullRequest read bodies with response.json(),
\* which throws on a body that is not JSON; the others use parseJsonSafe.
SafeJson(op) == op \notin {"aiReviewPullRequest", "aiDescribePullRequest"}

\* The error an operation raises: what failed and how the request was answered.
Failed(what, resp) == Raised(what, [kind |-> resp, branch |-> NoBranch])

Raise(e) == result' = e /\ pc' = "done"
Return(v) == result' = Returned(v) /\ pc' = "done"
Continue(label) == result' = result /\ pc' = label

\* response.statusText of a refused request, and the bodies that can come with it:
\* not JSON, JSON without a message, JSON with a message.
StatusTexts == {"Forbidden", "Conflict"}
NoMessage == ""
ErrorBodies ==
    {[parsed |-> FALSE, message |-> NoMessage]}
        \cup {[parsed |-> TRUE, message |-> m] : m \in {NoMessage, "Not mergeable"}}

\* A refused request as it is recorded on the wire.
Refusal(k, ref, statusText, body) ==
    [kind |-> k, ref |-> ref, resp |-> "http", statusText |-> statusText, body |-> body]

\* An error text is the sequence of the pieces the template literals join.
Separator(op) == IF op \in {"listFiles", "findFile"} \cup AiOps THEN " - " ELSE ". "

Prefix(op) ==
    CASE op = "listFiles" -> "Failed to list path: "
      [] op = "findFile" -> "Search failed: "
      [] op = "createIssue" -> "Failed to create issue: "
      [] op = "commentOnIssue" -> "Failed to comment: "
      [] op = "closeIssue" -> "Failed to close issue: "
      [] op = "mergePullRequest" -> "Failed to merge PR: "
      [] op = "triggerWorkflow" -> "Failed to trigger workflow: "
      [] op = "getWorkflowStatus" -> "Failed to fetch workflows: "
      [] op = "generateAndApplyLabels" -> "Failed to apply labels: "
      [] OTHER -> "Failed to fetch PR metadata: "

\* The operations whose body is a try block with a catch that rethrows with the
\* repository and the issue/PR number in front.
Wrapped(op) ==
    op \in {"createIssue", "commentOnIssue", "closeIssue", "mergePullRequest",
            "triggerWorkflow", "getWorkflowStatus"}

Context(op) ==
    CASE op = "createIssue" -> "Failed to create issue on repo: "
      [] op = "commentOnIssue" -> "Failed to comment on issue in repo: "
      [] op = "closeIssue" -> "Failed to close issue in repo: "
      [] op = "mergePullRequest" -> "Failed to merge PR in repo: "
      [] op = "triggerWorkflow" -> "Failed to trigger workflow in repo: "
      [] OTHER -> "Failed to get workflow status for repo: "

Rethrown(op, text) == IF Wrapped(op) THEN <<Context(op)>> \o text ELSE text

\* Mutant: the body of the refusal is not looked at.
StatusMessageStatusOnly(statusText, body, sep) == <<statusText>>

\* payload?.message ? `${statusText}<sep>${payload.message}` : statusText
StatusMessage(statusText, body, sep) ==
    IF body.parsed /\ body.message # NoMessage
    THEN <<statusText, sep, body.message>>
    ELSE <<statusText>>

\* The error of a request answered with statusText and body.
ResponseError(op, statusText, body) ==
    Rethrown(op, <<Prefix(op)>> \o StatusMessage(statusText, body, Separator(op)))

\* The error of a request whose fetch rejected.
FetchError(op) == Rethrown(op, <<"fetch failed">>)

\* A 2xx answer whose body is not JSON: payload is null, statusText is "OK".
NotJson == [parsed |-> FALSE, message |-> NoMessage]

\* The first await after the prologue.
FirstStep(c) ==
    CASE c.op = "listFiles" -> IF c.branch # NoBranch THEN "request" ELSE "default"
      [] c.op = "closeIssue" -> IF c.comment THEN "comment" ELSE "request"
      [] c.op \in SimpleOps -> "request"
      [] OTHER -> "meta"

\* Mutant: the credentials are read and the first request goes out before the
\* coordinates are looked at.
ResolveCallUnchecked ==
    /\ call.op \in SimpleOps \cup AiOps
    /\ pc = "call"
    /\ IF NeedsToken(call.op) /\ ~env.ghToken
         THEN Raise(Raised("GITHUB_TOKEN not set", NoError))
         ELSE IF call.op \in AiOps /\ ~env.openaiKey
              THEN Raise(Raised("OPENAI_API_KEY not set", NoError))
              ELSE Continue(FirstStep(call))
    /\ UNCHANGED <<call, env, net, ReadLocals, WsVars, AiLocals, HookVars>>

\* Every operation resolves the coordinates first, then reads the credentials.
ResolveCall ==
    /\ call.op \in SimpleOps \cup AiOps
    /\ pc = "call"
    /\ IF ~extractRepoIdentifiers(call.url).ok
         THEN Raise(Raised("Invalid GitHub URL", NoError))
         ELSE IF NeedsToken(call.op) /\ ~env.ghToken
              THEN Raise(Raised("GITHUB_TOKEN not set", NoError))
              ELSE IF call.op \in AiOps /\ ~env.openaiKey
                   THEN Raise(Raised("OPENAI_API_KEY not set", NoError))
                   ELSE Continue(FirstStep(call))
    /\ UNCHANGED <<call, env, net, ReadLocals, WsVars, AiLocals, HookVars>>

\* listFilesFromRepo without a branch: getDefaultBranch is awaited outside any
\* try, so a rejected fetch and an unparseable body raise.
ListDefault ==
    /\ call.op = "listFiles"
    /\ pc = "default"
    /\ \E r \in DefaultResponses :
          /\ IF r.kind = "http"
             THEN \E st \in StatusTexts, body \in ErrorBodies :
                     net' = Append(net, Refusal("repo", NoBranch, st, body))
             ELSE net' = Append(net, Request("repo", NoBranch, r.kind))
          /\ IF r.kind \in {"network", "unparseable"}
             THEN Raise(Failed("fetch failed", r.kind)) /\ def' = def
             ELSE Continue("request") /\ def' = getDefaultBranch(r)
    /\ UNCHANGED <<call, env, branchesToTry, tryIdx, lastError, WsVars, AiLocals, HookVars>>

\* Mutant: the error of commentOnGitHubIssue is dropped and the PATCH follows.
CloseCommentBestEffort ==
    /\ call.op = "closeIssue"
    /\ pc = "comment"
    /\ \E r \in {"network", "unparseable", "ok", "http"} :
          /\ net' = Append(net, Request("issue comment", NoBranch, r))
          /\ Continue("request")
    /\ UNCHANGED <<call, env, ReadLocals, WsVars, AiLocals, HookVars>>

\* closeGitHubIssue with a comment: commentOnGitHubIssue runs first and its error
\* leaves the try block before the PATCH.
CloseComment ==
    /\ call.op = "closeIssue"
    /\ pc = "comment"
    /\ \/ \E r \in {"network", "unparseable", "ok"} :
             /\ net' = Append(net, Request("issue comment", NoBranch, r))
             /\ CASE r = "ok" -> Continue("request")
                  [] r = "network" ->
                       Raise(Failed(Rethrown("closeIssue", FetchError("commentOnIssue")), r))
                  [] OTHER ->
                       Raise(Failed(Rethrown("closeIssue",
                                             ResponseError("commentOnIssue", "OK", NotJson)), r))
       \/ \E st \in StatusTexts, body \in ErrorBodies :
             /\ net' = Append(net, Refusal("issue comment", NoBranch, st, body))
             /\ Raise(Failed(Rethrown("closeIssue",
                                      ResponseError("commentOnIssue", st, body)), "http"))
    /\ UNCHANGED <<call, env, ReadLocals, WsVars, AiLocals, HookVars>>

RequestKind(op) ==
    CASE op = "listFiles" -> "contents"
      [] op = "findFile" -> "search"
      [] op = "createIssue" -> "issues"
      [] op = "commentOnIssue" -> "issue comment"
      [] op = "closeIssue" -> "issue patch"
      [] op = "mergePullRequest" -> "merge"
      [] op = "triggerWorkflow" -> "dispatch"
      [] OTHER -> "runs"

\* closeGitHubIssue and triggerWorkflow test response.ok only; the others also
\* reject a body that is not JSON.
ChecksPayload(op) == op \notin {"closeIssue", "triggerWorkflow"}

\* The one request of a GitHub operation and the result built from the answer.
GitHubRequest ==
    /\ call.op \in SimpleOps
    /\ pc = "request"
    /\ LET targetBranch == IF call.op # "listFiles" THEN NoBranch
                           ELSE IF call.branch # NoBranch THEN call.branch
                           ELSE IF def # Null THEN def ELSE "main"
       IN  \/ \E r \in {"network", "unparseable", "ok"} :
                 /\ net' = Append(net, Request(RequestKind(call.op), targetBranch, r))
                 /\ CASE r = "network" -> Raise(Failed(FetchError(call.op), r))
                      [] r = "unparseable" /\ ChecksPayload(call.op) ->
                           Raise(Failed(ResponseError(call.op, "OK", NotJson), r))
                      [] OTHER -> Return([success |-> TRUE])
           \/ \E st \in StatusTexts, body \in ErrorBodies :
                 /\ net' = Append(net, Refusal(RequestKind(call.op), targetBranch, st, body))
                 /\ Raise(Failed(ResponseError(call.op, st, body), "http"))
    /\ UNCHANGED <<call, env, ReadLocals, WsVars, AiLocals, HookVars>>

\* The pull-request fields the operations read: whether comments_url and diff_url
\* are present, and the title.
PrMetas == [comments_url : BOOLEAN, diff_url : BOOLEAN, title : {"", "old"}]

AfterMeta(op) ==
    CASE op \in {"aiDraftChangelog", "aiReviewPullRequest"} -> "commits"
      [] op = "aiImprovePullRequest" -> "diff"
      [] op = "aiDescribePullRequest" -> "files"
      [] OTHER -> "llm"

\* GET /repos/{repo}/pulls/{n}.  aiImprovePullRequest also requires diff_url.
FetchPrMeta ==
    /\ call.op \in AiOps
    /\ pc = "meta"
    /\ \/ \E r \in {"network", "unparseable"} :
             /\ net' = Append(net, Request("pr", NoBranch, r))
             /\ Raise(Failed("Failed to fetch PR metadata", r))
             /\ prMeta' = prMeta
       \/ \E st \in StatusTexts, body \in ErrorBodies :
             /\ net' = Append(net, Refusal("pr", NoBranch, st, body))
             /\ Raise(Failed(<<"Failed to fetch PR metadata: ">>
                                 \o StatusMessage(st, body, " - "), "http"))
             /\ prMeta' = prMeta
       \/ \E m \in PrMetas :
             /\ net' = Append(net, Request("pr", NoBranch, "ok"))
             /\ prMeta' = m
             /\ IF call.op = "aiImprovePullRequest" /\ ~m.diff_url
                THEN Raise(Raised("PR diff URL is missing", NoError))
                ELSE Continue(AfterMeta(call.op))
    /\ UNCHANGED <<call, env, llm, upstream, prompt, ReadLocals, WsVars, HookVars>>

\* GET .../commits: a non-2xx answer gives no commits; an unparseable body gives
\* none in aiDraftChangelog and throws in aiReviewPullRequest.
FetchCommits ==
    /\ call.op \in {"aiDraftChangelog", "aiReviewPullRequest"}
    /\ pc = "commits"
    /\ \E r \in {"network", "http", "unparseable", "ok"} :
          /\ net' = Append(net, Request("commits", NoBranch, r))
          /\ IF r = "network" \/ (r = "unparseable" /\ ~SafeJson(call.op))
             THEN Raise(Failed("fetch failed", r))
             ELSE Continue(IF call.op = "aiReviewPullRequest" THEN "diff" ELSE "llm")
    /\ UNCHANGED <<call, env, ReadLocals, WsVars, AiLocals, HookVars>>

\* GET diff_url.  aiReviewPullRequest does not test diff_url: fetch(undefined)
\* rejects without a request.
FetchDiff ==
    /\ call.op \in {"aiImprovePullRequest", "aiReviewPullRequest"}
    /\ pc = "diff"
    /\ IF ~prMeta.diff_url
       THEN Raise(Failed("fetch failed", "network")) /\ net' = net
       ELSE \E r \in {"network", "http", "ok"} :
               /\ net' = Append(net, Request("diff", NoBranch, r))
               /\ IF r = "ok" THEN Continue("llm") ELSE Raise(Failed("Failed to fetch PR diff", r))
    /\ UNCHANGED <<call, env, ReadLocals, WsVars, AiLocals, HookVars>>

\* GET .../files in aiDescribePullRequest.
FetchFiles ==
    /\ call.op = "aiDescribePullRequest"
    /\ pc = "files"
    /\ \E r \in {"network", "http", "unparseable", "ok"} :
          /\ net' = Append(net, Request("files", NoBranch, r))
          /\ IF r \in {"network", "unparseable"}
             THEN Raise(Failed("fetch failed", r))
             ELSE Continue("llm")
    /\ UNCHANGED <<call, env, ReadLocals, WsVars, AiLocals, HookVars>>

\* Labels are strings over a blank and a letter.
LabelChars == {" ", "a"}
LabelTexts == SeqsUpTo(LabelChars, MaxLabelLen)
LlmLabels == SeqsUpTo(LabelTexts, MaxLlmLabels)
Caps == (-1)..MaxCap

\* What a 2xx completion can carry, by operation: a text (possibly empty), a
\* label list, or a title and description.  "nochoices" is a body without
\* choices; "nocontent", "badjson" and "nolabels" parse to an empty object;
\* "notstrings" is a labels value that is not a list of strings, or a title or
\* description that is not a string (or a content that parses to null).
LlmAnswers(op) ==
    IF op = "generateAndApplyLabels"
    THEN {[kind |-> k, labels |-> <<>>] : k \in {"nochoices", "nocontent", "badjson", "nolabels", "notstrings"}}
             \cup {[kind |-> "labels", labels |-> l] : l \in LlmLabels}
    ELSE IF op = "aiDescribePullRequest"
    THEN {[kind |-> k, title |-> "", description |-> ""] :
              k \in {"nochoices", "nocontent", "badjson", "notstrings"}}
             \cup {[kind |-> "json", title |-> t, description |-> d] : t \in {"", "new"}, d \in {"", "desc"}}
    ELSE {[kind |-> "nochoices", text |-> ""]} \cup {[kind |-> "text", text |-> t] : t \in {"", "review"}}

\* Reading the completion throws: choices[0] of a body without choices in
\* aiDescribePullRequest, slice/map/trim of a value of another type.
AnswerThrows(op, a) ==
    \/ op = "aiDescribePullRequest" /\ a.kind \in {"nochoices", "notstrings"}
    \/ op = "generateAndApplyLabels" /\ a.kind = "notstrings"

AfterLlm(op) == IF op = "generateAndApplyLabels" THEN "apply" ELSE "publish"

\* POST /v1/chat/completions.
AskLlm ==
    /\ call.op \in AiOps
    /\ pc = "llm"
    /\ \/ \E r \in {"network", "http", "unparseable"} :
             /\ net' = Append(net, Request("llm", NoBranch, r))
             /\ Raise(Failed("OpenAI failed", r))
             /\ llm' = llm
       \/ \E a \in LlmAnswers(call.op) :
             /\ net' = Append(net, Request("llm", NoBranch, "ok"))
             /\ IF AnswerThrows(call.op, a)
                THEN Raise(Failed("TypeError", a.kind)) /\ llm' = llm
                ELSE Continue(AfterLlm(call.op)) /\ llm' = a
    /\ UNCHANGED <<call, env, prMeta, upstream, prompt, ReadLocals, WsVars, HookVars>>

Published(text, url) == [success |-> TRUE, artifact |-> text, publishedUrl |-> url]

\* Mutant: the comment is posted whether or not publish was requested.
PublishCommentUnasked ==
    /\ call.op \in CommentOps
    /\ pc = "publish"
    /\ LET caught == call.op = "aiReviewPullRequest"
       IN  IF ~env.ghToken \/ ~prMeta.comments_url
           THEN Return(Published(llm.text, "undefined")) /\ net' = net
           ELSE \E r \in {"network", "http", "unparseable", "nourl", "ok"} :
                   /\ net' = Append(net, Request("comment", llm.text, r))
                   /\ IF r = "network" /\ ~caught
                      THEN Raise(Failed("fetch failed", r))
                      ELSE Return(Published(llm.text, IF r = "ok" THEN "html_url" ELSE "undefined"))
    /\ UNCHANGED <<call, env, ReadLocals, WsVars, AiLocals, HookVars>>

\* The publish step of the comment-style operations.  aiReviewPullRequest wraps
\* it in try/catch and does not test comments_url; the other three test
\* comments_url and await the POST outside any try.
PublishComment ==
    /\ call.op \in CommentOps
    /\ pc = "publish"
    /\ LET caught == call.op = "aiReviewPullRequest"
       IN  IF ~(call.publish /\ env.ghToken) \/ ~prMeta.comments_url
           THEN Return(Published(llm.text, "undefined")) /\ net' = net
           ELSE \E r \in {"network", "http", "unparseable", "nourl", "ok"} :
                   /\ net' = Append(net, Request("comment", llm.text, r))
                   /\ IF r = "network" /\ ~caught
                      THEN Raise(Failed("fetch failed", r))
                      ELSE Return(Published(llm.text, IF r = "ok" THEN "html_url" ELSE "undefined"))
    /\ UNCHANGED <<call, env, ReadLocals, WsVars, AiLocals, HookVars>>

\* title and description as aiDescribePullRequest derives them from the
\* completion and the PR.
Suggested(a, m) ==
    [title |-> IF a.title # "" THEN a.title ELSE m.title, description |-> a.description]

Described(sug, published) ==
    [success |-> TRUE, title |-> sug.title, description |-> sug.description, published |-> published]

\* Mutant: a refused PATCH is not followed by a comment.
DescribePatchNoFallback ==
    /\ call.op = "aiDescribePullRequest"
    /\ pc = "publish"
    /\ LET sug == Suggested(llm, prMeta)
       IN  IF ~(call.publish /\ env.ghToken)
           THEN Return(Described(sug, FALSE)) /\ net' = net
           ELSE \E r \in {"network", "http", "ok"} :
                   /\ net' = Append(net, Request("patch", sug, r))
                   /\ Return(Described(sug, r = "ok"))
    /\ UNCHANGED <<call, env, ReadLocals, WsVars, AiLocals, HookVars>>

\* Mutant: the comment is posted after every PATCH, accepted or not.
DescribePatchThenComment ==
    /\ call.op = "aiDescribePullRequest"
    /\ pc = "publish"
    /\ LET sug == Suggested(llm, prMeta)
       IN  IF ~(call.publish /\ env.ghToken)
           THEN Return(Described(sug, FALSE)) /\ net' = net
           ELSE \E r \in {"network", "http", "ok"} :
                   /\ net' = Append(net, Request("patch", sug, r))
                   /\ IF r # "network" /\ prMeta.comments_url
                      THEN Continue("fallback")
                      ELSE Return(Described(sug, r = "ok"))
    /\ UNCHANGED <<call, env, ReadLocals, WsVars, AiLocals, HookVars>>

\* PATCH the PR with the suggested title and body, inside try/catch.
DescribePatch ==
    /\ call.op = "aiDescribePullRequest"
    /\ pc = "publish"
    /\ LET sug == Suggested(llm, prMeta)
       IN  IF ~(call.publish /\ env.ghToken)
           THEN Return(Described(sug, FALSE)) /\ net' = net
           ELSE \E r \in {"network", "http", "ok"} :
                   /\ net' = Append(net, Request("patch", sug, r))
                   /\ IF r = "http" /\ prMeta.comments_url
                      THEN Continue("fallback")
                      ELSE Return(Described(sug, r = "ok"))
    /\ UNCHANGED <<call, env, ReadLocals, WsVars, AiLocals, HookVars>>

\* The fallback comment; its answer is not looked at and a rejection is caught.
DescribeFallback ==
    /\ call.op = "aiDescribePullRequest"
    /\ pc = "fallback"
    /\ \E r \in {"network", "http", "ok"} :
          net' = Append(net, Request("comment", Suggested(llm, prMeta), r))
    /\ Return(Described(Suggested(llm, prMeta), FALSE))
    /\ UNCHANGED <<call, env, ReadLocals, WsVars, AiLocals, HookVars>>

Max(a, b) == IF a >= b THEN a ELSE b

\* Array.prototype.slice(0, n): a negative n counts from the end.
JsSlice(s, n) == SubSeq(s, 1, IF n < 0 THEN Max(Len(s) + n, 0) ELSE Min(n, Len(s)))

RECURSIVE TrimStart(_)
TrimStart(s) == IF s # <<>> /\ Head(s) = " " THEN TrimStart(Tail(s)) ELSE s

RECURSIVE TrimEnd(_)
TrimEnd(s) == IF s # <<>> /\ s[Len(s)] = " " THEN TrimEnd(SubSeq(s, 1, Len(s) - 1)) ELSE s

\* String.prototype.trim
Trim(s) == TrimEnd(TrimStart(s))

NonEmpty(label) == Len(label) > 0

\* Mutant: blank labels are dropped before the list is capped.
CappedLabelsFilterFirst(raw, maxLabels) ==
    JsSlice(SelectSeq([i \in 1..Len(raw) |-> Trim(raw[i])], NonEmpty), maxLabels)

\* (parsed.labels || []).slice(0, maxLabels).map(trim).filter(length > 0)
CappedLabels(raw, maxLabels) ==
    LET capped == JsSlice(raw, maxLabels)
    IN  SelectSeq([i \in 1..Len(capped) |-> Trim(capped[i])], NonEmpty)

\* POST .../issues/{n}/labels with the capped list; only response.ok is tested.
ApplyLabels ==
    /\ call.op = "generateAndApplyLabels"
    /\ pc = "apply"
    /\ LET labels == CappedLabels(llm.labels, call.maxLabels)
       IN  \/ \E r \in {"network", "unparseable", "ok"} :
                 /\ net' = Append(net, Request("labels", labels, r))
                 /\ IF r = "network"
                    THEN Raise(Failed(FetchError(call.op), r))
                    ELSE Return([success |-> TRUE, labels |-> labels])
           \/ \E st \in StatusTexts, body \in ErrorBodies :
                 /\ net' = Append(net, Refusal("labels", labels, st, body))
                 /\ Raise(Failed(ResponseError(call.op, st, body), "http"))
    /\ UNCHANGED <<call, env, ReadLocals, WsVars, AiLocals, HookVars>>

GitHubNext == ListDefault \/ CloseComment \/ GitHubRequest

AiNext ==
    \/ FetchPrMeta \/ FetchCommits \/ FetchDiff \/ FetchFiles \/ AskLlm
    \/ PublishComment \/ DescribePatch \/ DescribeFallback \/ ApplyLabels

\* An invocation: the operation and the arguments the handlers look at.
Invocation(op, url, branch, comment, publish, maxLabels) ==
    [op |-> op, url |-> url, branch |-> branch, comment |-> comment,
     publish |-> publish, maxLabels |-> maxLabels]

AiCalls ==
    {Invocation(op, url, NoBranch, FALSE, publish, 0) :
        op \in AiOps \ {"generateAndApplyLabels"}, url \in {GoodUrl, BadUrl}, publish \in BOOLEAN}
    \cup {Invocation("generateAndApplyLabels", url, NoBranch, FALSE, FALSE, n) :
        url \in {GoodUrl, BadUrl}, n \in Caps}

InitAi ==
    /\ IdleHook
    /\ call \in AiCalls
    /\ env \in [ghToken : BOOLEAN, openaiKey : BOOLEAN]
    /\ pc = "call"
    /\ net = <<>>
    /\ result = NoResult
    /\ IdleRead
    /\ IdleWs
    /\ IdleAi

SpecAi == InitAi /\ [][ResolveCall \/ AiNext]_vars

\* Every operation that resolves coordinates, called with any URL.
UrlCalls ==
    {Invocation(op, url, b, op = "closeIssue", TRUE, 1) :
        op \in {"readFile"} \cup SimpleOps \cup AiOps, url \in AllUrls, b \in {NoBranch}}

InitUrl ==
    /\ IdleHook
    /\ call \in UrlCalls
    /\ env = [ghToken |-> TRUE, openaiKey |-> TRUE]
    /\ pc = "call"
    /\ net = <<>>
    /\ result = NoResult
    /\ IdleRead
    /\ IdleWs
    /\ IdleAi

\* What is at stake is whether anything is requested at all: the AI operations are
\* followed up to their first request, the PR metadata fetch.
UrlNext == ReadFileNext \/ ResolveCall \/ GitHubNext \/ FetchPrMeta

SpecUrl == InitUrl /\ [][UrlNext]_vars

Sent(k) == {i \in 1..Len(net) : net[i].kind = k}
Answered(k, r) == \E i \in Sent(k) : net[i].resp = r

PublishingOps == CommentOps \cup {"aiDescribePullRequest"}

\* The completion has been received and read: the artifact exists.
ArtifactProduced == call.op \in PublishingOps /\ llm # NoAnswer

\* C4 as stated: a publishing AI operation called with publish=true that has its
\* artifact never raises because of the publish step; it returns success:true.
C4_PublishFailureNeverRaises ==
    (ArtifactProduced /\ call.publish /\ pc = "done") =>
        (result.kind = "returned" /\ result.value.success)

DescribeDone == call.op = "aiDescribePullRequest" /\ ArtifactProduced /\ pc = "done"

\* C5 as stated: in aiDescribePullRequest with publish=true and a token, whenever
\* the PATCH fails (a non-2xx answer or a rejected request) a comment has been
\* posted when the operation ends, and the operation returns success:true.
C5_CommentWheneverPatchFails ==
    (DescribeDone /\ call.publish /\ env.ghToken /\ ~Answered("patch", "ok")) =>
        /\ Sent("comment") # {}
        /\ result.kind = "returned" /\ result.value.success

\* C5 amended: in aiDescribePullRequest with publish=true and a token, a comment
\* carrying the suggested title and description is posted exactly when the PATCH was
\* answered with a non-2xx status and the PR metadata has a comments_url (not when
\* the PATCH request itself was rejected, nor without a comments_url); in every case
\* the operation returns success:true, with published=true only after a 2xx PATCH.
C5_CommentAfterRefusedPatch ==
    (DescribeDone /\ call.publish /\ env.ghToken) =>
        /\ Sent("comment") # {} <=> (Answered("patch", "http") /\ prMeta.comments_url)
        /\ \A i \in Sent("comment") :
              net[i].ref = [title |-> result.value.title, description |-> result.value.description]
        /\ result.kind = "returned" /\ result.value.success
        /\ result.value.published <=> Answered("patch", "ok")

\* A PATCH answered 403-style, then the comment, then success with published=false.
C5_Witness ==
    /\ DescribeDone /\ call.publish /\ env.ghToken
    /\ Answered("patch", "http")
    /\ Sent("comment") # {}
    /\ result.kind = "returned" /\ result.value.success /\ ~result.value.published
    /\ result.value.title = "new"

LabelsSent == call.op = "generateAndApplyLabels" /\ Sent("labels") # {}

\* A label without a leading or trailing blank, and not empty.
IsTrimmed(label) == label # <<>> /\ label[1] # " " /\ label[Len(label)] # " "

\* C6 as stated: the list sent to the labels-add endpoint has at most maxLabels
\* entries, all trimmed and non-empty, it is the first maxLabels labels of the
\* completion in their order, and the returned labels are the list sent.
C6_FirstMaxLabelsSent ==
    \A i \in Sent("labels") :
        call.op = "generateAndApplyLabels" =>
            /\ Len(net[i].ref) <= call.maxLabels
            /\ \A j \in 1..Len(net[i].ref) : IsTrimmed(net[i].ref[j])
            /\ net[i].ref = SubSeq(llm.labels, 1, Min(Max(call.maxLabels, 0), Len(llm.labels)))
            /\ (result.kind = "returned" => result.value.labels = net[i].ref)

\* The label without its leading and trailing blanks.
Stripped(label) ==
    LET inked == {k \in 1..Len(label) : label[k] # " "}
    IN  IF inked = {} THEN <<>>
        ELSE SubSeq(label, CHOOSE a \in inked : \A k \in inked : a <= k,
                           CHOOSE b \in inked : \A k \in inked : b >= k)

\* The first n labels of raw, stripped, without those that are blank.
RECURSIVE StrippedPrefix(_, _)
StrippedPrefix(raw, n) ==
    IF n = 0 THEN <<>>
    ELSE IF Stripped(raw[n]) = <<>> THEN StrippedPrefix(raw, n - 1)
    ELSE Append(StrippedPrefix(raw, n - 1), Stripped(raw[n]))

\* C6 amended: the list sent to the labels-add endpoint is made of the first
\* maxLabels labels of the completion (for a negative maxLabels: all but the last
\* -maxLabels), each trimmed, those left empty dropped, order kept; so every entry
\* is trimmed and non-empty, there are at most maxLabels entries when maxLabels >= 0
\* and possibly fewer than the completion could fill; the returned labels are the
\* list sent.
C6_TrimmedPrefixSent ==
    \A i \in Sent("labels") :
        call.op = "generateAndApplyLabels" =>
            LET raw  == llm.labels
                cap  == call.maxLabels
                n    == IF cap >= 0 THEN Min(cap, Len(raw)) ELSE Max(Len(raw) + cap, 0)
                sent == net[i].ref
            IN  /\ sent = StrippedPrefix(raw, n)
                /\ \A j \in 1..Len(sent) : IsTrimmed(sent[j])
                /\ (cap >= 0 => Len(sent) <= cap)
                /\ (result.kind = "returned" => result.value.labels = sent)

\* Two labels from the completion, the first blank, cap 1: nothing is sent although
\* the second label was usable.
C6_Witness ==
    /\ LabelsSent /\ pc = "done" /\ result.kind = "returned"
    /\ call.maxLabels = 1
    /\ llm.labels = << <<" ">>, <<"a">> >>
    /\ result.value.labels = <<>>

\* The URL has a github.com/<owner>/<repo> segment: "github.com", "/", an owner of
\* one or more non-"/" tokens, "/", and at least one non-"/" token.
HasRepoSegment(url) ==
    \E i \in 1..Len(url) : \E j \in (i + 3)..(Len(url) - 1) :
        /\ url[i] = "github.com"
        /\ url[i + 1] = "/"
        /\ \A k \in (i + 2)..(j - 1) : url[k] # "/"
        /\ url[j] = "/"
        /\ url[j + 1] # "/"

\* C7: for a URL without a github.com/<owner>/<repo> segment coordinate resolution
\* fails, and every operation that resolves coordinates raises the invalid-URL error
\* without having issued any request.
C7_InvalidUrlNoRequest ==
    ~HasRepoSegment(call.url) =>
        /\ ~extractRepoIdentifiers(call.url).ok
        /\ net = <<>>
        /\ pc \in {"call", "done"}
        /\ (pc = "done" => result = Raised("Invalid GitHub URL", NoError))

\* mergePullRequest called with github.com/<owner> and no repository.
C7_Witness ==
    /\ call.op = "mergePullRequest"
    /\ call.url = <<"github.com", "/", "a">>
    /\ pc = "done"
    /\ result = Raised("Invalid GitHub URL", NoError)
    /\ net = <<>>

\* C11 as stated: the release step never changes what the caller receives: the
\* outcome the try block produced (result or error) is the outcome delivered,
\* whether the recursive delete succeeds or rejects.
C11_ReleaseKeepsOutcome ==
    [][\A p \in Procs : (wpc[p] = "finally" /\ wpc'[p] = "done") => wres'[p] = wres[p]]_vars

----------------------------------------------------------------------------
(* The GitHub operations of the content client, called with valid coordinates *)

GitHubCalls ==
    {Invocation(op, GoodUrl, b, c, FALSE, 1) :
        op \in SimpleOps, b \in {NoBranch, "dev"}, c \in BOOLEAN}
    \cup {Invocation("generateAndApplyLabels", GoodUrl, NoBranch, FALSE, FALSE, 1)}

InitGitHub ==
    /\ IdleHook
    /\ call \in GitHubCalls
    /\ env \in [ghToken : BOOLEAN, openaiKey : BOOLEAN]
    /\ pc = "call"
    /\ net = <<>>
    /\ result = NoResult
    /\ IdleRead
    /\ IdleWs
    /\ IdleAi

GitHubFlow == ResolveCall \/ GitHubNext \/ FetchPrMeta \/ AskLlm \/ ApplyLabels

SpecGitHub == InitGitHub /\ [][GitHubFlow]_vars

\* The requests GitHub refused with a body that carries a message.
RefusedWithMessage ==
    {i \in 1..Len(net) :
        /\ net[i].kind # "llm"
        /\ net[i].resp = "http"
        /\ net[i].body.parsed
        /\ net[i].body.message # NoMessage}

RaisedWith(i) ==
    /\ result.kind = "raised"
    /\ Contains(result.error, net[i].statusText)
    /\ Contains(result.error, net[i].body.message)

\* C12 as stated: whenever GitHub has refused a request of the operation with a
\* message in the body, the operation ends by raising an error whose text has both
\* the status text and the message.
C12_EveryRefusalRaised ==
    pc = "done" => \A i \in RefusedWithMessage : RaisedWith(i)

\* C12 amended: the same, for every request but the default-branch lookup of
\* listFiles, whose refusal is answered by falling back to "main".
C12_OwnRefusalRaised ==
    pc = "done" => \A i \in RefusedWithMessage : net[i].kind # "repo" => RaisedWith(i)

\* A merge refused with a message has ended in an error.
C12_Witness ==
    /\ pc = "done"
    /\ call.op = "mergePullRequest"
    /\ \E i \in RefusedWithMessage : net[i].kind = "merge" /\ RaisedWith(i)

\* C13 as stated: an operation that received a 2xx answer from GitHub whose body
\* is not JSON ends in an error, never in a success result.
C13_NoSuccessOnUnparseable ==
    (pc = "done" /\ \E i \in 1..Len(net) : net[i].kind # "llm" /\ net[i].resp = "unparseable")
        => result.kind = "raised"

\* C14 as stated: once a candidate branch has answered the content request with a
\* directory listing, readFile ends in an error that reports the directory; it
\* never returns a file.
C14_DirectoryAlwaysReported ==
    (pc = "done" /\ call.op = "readFile" /\ Answered("contents", "directory"))
        => (result.kind = "raised" /\ result.last.kind = "directory")

\* C15 as stated: every operation that starts a subprocess eventually returns to
\* its caller, even when the subprocess never exits.
C15_EveryOperationReturns ==
    \A p \in Procs : wcall[p].op \in WsOps => <>(wpc[p] = "done")

\* The output the test command of a finished runTests printed, when it exited 0.
TestOutput(p) == fx[p][CHOOSE i \in 1..Len(fx[p]) : fx[p][i].e = "exec"].out

Classified(p) == Finished(p) /\ wcall[p].op = "runTests" /\ DidOk(p, "exec")

Remote(p) == wcall[p].nosana /\ wcall[p].url # NoUrl

\* The count patterns the mode in use recognizes.
PassKinds(p) == IF Remote(p) THEN {"passed"} ELSE {"tpassed", "check", "total"}
FailKinds(p) == IF Remote(p) THEN {"failed"} ELSE {"tfailed", "cross"}

HasCount(out, kinds) == \E i \in 1..Len(out) : out[i].k \in kinds
HasFailures(out, kinds) == \E i \in 1..Len(out) : out[i].k \in kinds /\ out[i].n > 0

\* C16 as stated: a finished runTests has passed=true only if the test command
\* exited 0 and its output holds a recognized pass/total count and no recognized
\* failure count above zero.
C16_PassedOnlyOnRecognizedCount ==
    \A p \in Procs :
        (Finished(p) /\ wcall[p].op = "runTests" /\ wres[p].kind = "returned" /\ wres[p].value.passed)
            => /\ DidOk(p, "exec")
               /\ HasCount(TestOutput(p), PassKinds(p))
               /\ ~HasFailures(TestOutput(p), FailKinds(p))

\* C17 as stated: the result of a remote run has the passed, totalTests and
\* failedTests that the local classification gives for the same output.
C17_RemoteSameAsLocal ==
    \A p \in Procs :
        (Classified(p) /\ Remote(p)) =>
            LET local == LocalTestResult(TestOutput(p))
            IN  /\ wres[p].value.passed = local.passed
                /\ wres[p].value.totalTests = local.totalTests
                /\ wres[p].value.failedTests = local.failedTests

----------------------------------------------------------------------------
(* The user prompt of the AI operations, by the lengths of its parts *)

DiffCap == 120000
CommitsCap == 4000

\* Mutant: the text is placed whole.
SliceLenWhole(len, cap) == len

\* The length of text.slice(0, cap) for a text of len characters.
SliceLen(len, cap) == Min(len, cap)

\* The length of (text || fallback).
OrElseLen(len, fallback) == IF len = 0 THEN fallback ELSE len

\* '(empty)'
EmptyMark == 7

\* One element of the array that is joined with '\n': the characters the template
\* supplies (consecutive literal elements are taken together, newlines included;
\* prNumber and maxLabels are one digit) and the characters of the datum named.
Line(name, fixed, data) == [name |-> name, fixed |-> fixed, data |-> data]

\* The array of each operation, given the diff and the commit messages as they
\* are at the point of assembly.
PromptLines(op, diff, commitMsgs, u) ==
    CASE op = "aiImprovePullRequest" ->
             <<Line("repo", 12, u.repo),
               Line("title", 7, u.title),
               Line("", 32, 0),
               Line("diff", 0, diff),
               Line("", 188, 0)>>
      [] op = "aiReviewPullRequest" ->
             <<Line("repo", 12, u.repo),
               Line("title", 7, u.title),
               Line("author", 8, u.author),
               Line("", 17, 0),
               Line("commits", 0, commitMsgs),
               Line("", 32, 0),
               Line("diff", 0, diff),
               Line("", 195, 0)>>
      [] op = "aiAskPullRequest" ->
             <<Line("repo", 12, u.repo),
               Line("title", 7, u.title),
               Line("", 16, 0),
               Line("body", 0, OrElseLen(u.body, EmptyMark)),
               Line("", 0, 0),
               Line("question", 10, u.question)>>
      [] op = "generateAndApplyLabels" ->
             <<Line("title", 10, u.title),
               Line("body", 16, u.body),
               Line("", 18, 0)>>
      [] op = "aiDraftChangelog" ->
             <<Line("title", 4, u.title),
               Line("", 17, 0),
               Line("commits", 0, commitMsgs),
               Line("", 96, 0)>>
      [] op = "aiDescribePullRequest" ->
             <<Line("repo", 12, u.repo),
               Line("", 5, 0),
               Line("title", 15, u.title),
               Line("", 22, 0),
               Line("body", 0, OrElseLen(u.body, EmptyMark)),
               Line("", 23, 0),
               Line("files", 0, u.files),
               Line("", 199, 0)>>

\* const diff = (...).slice(0, 120000); const commitMsgs = (...).slice(0, 4000);
\* const user = [...]
UserPrompt(op, u) ==
    PromptLines(op, SliceLen(u.diff, DiffCap), SliceLen(u.commits, CommitsCap), u)

\* The lengths a text can have around a cap.
Lengths(cap) == {0, 1, cap - 1, cap, cap + 1, MaxTextLen}

\* The texts each operation reads: the repository name from the URL, title, author
\* and body from the PR metadata, the diff, the joined commit messages, the joined
\* summary of the changed files (at most 100 of them), the caller's question.
Upstreams(op) ==
    {u \in [repo : {3}, title : {0, 300}, author : {0, 39}, body : {0, 1, MaxTextLen},
            diff : Lengths(DiffCap), commits : Lengths(CommitsCap),
            files : {0, MaxTextLen}, question : {0, 1, MaxTextLen}] :
        /\ op \notin {"aiReviewPullRequest"} => u.author = 0
        /\ op \notin {"aiAskPullRequest", "generateAndApplyLabels", "aiDescribePullRequest"} => u.body = 0
        /\ op \notin {"aiImprovePullRequest", "aiReviewPullRequest"} => u.diff = 0
        /\ op \notin {"aiReviewPullRequest", "aiDraftChangelog"} => u.commits = 0
        /\ op # "aiDescribePullRequest" => u.files = 0
        /\ op # "aiAskPullRequest" => u.question = 0}

\* The point where every text has been fetched and the prompt is put together.
ComposePrompt ==
    /\ call.op \in AiOps
    /\ pc = "compose"
    /\ prompt' = UserPrompt(call.op, upstream)
    /\ pc' = "composed"
    /\ UNCHANGED <<call, env, net, result, prMeta, llm, upstream, ReadLocals, WsVars, HookVars>>

InitPrompt ==
    /\ IdleHook
    /\ call \in {Invocation(op, GoodUrl, NoBranch, FALSE, FALSE, 1) : op \in AiOps}
    /\ env = [ghToken |-> TRUE, openaiKey |-> TRUE]
    /\ pc = "compose"
    /\ net = <<>>
    /\ result = NoResult
    /\ IdleRead
    /\ IdleWs
    /\ prMeta = NoMeta
    /\ llm = NoAnswer
    /\ upstream \in Upstreams(call.op)
    /\ prompt = NoPrompt

SpecPrompt == InitPrompt /\ [][ComposePrompt]_vars

Composed(ops) == pc = "composed" /\ call.op \in ops

LinesOf(name) == {i \in 1..Len(prompt) : prompt[i].name = name}

\* The array as it would be with the diff and the commit messages placed whole.
Unclipped == PromptLines(call.op, upstream.diff, upstream.commits, upstream)

\* C18: in aiReviewPullRequest and aiImprovePullRequest the prompt has one diff
\* line, of min(L, 120000) characters for a diff of L characters, and every line
\* other than the diff and the commit messages is there in full.
C18_DiffClippedBeforeAssembly ==
    Composed({"aiReviewPullRequest", "aiImprovePullRequest"}) =>
        /\ Cardinality(LinesOf("diff")) = 1
        /\ \A i \in LinesOf("diff") :
              /\ prompt[i].data = (IF upstream.diff <= 120000 THEN upstream.diff ELSE 120000)
              /\ prompt[i].fixed = 0
        /\ Len(prompt) = Len(Unclipped)
        /\ \A i \in 1..Len(prompt) :
              prompt[i].name \notin {"diff", "commits"} => prompt[i] = Unclipped[i]

\* A review of a diff longer than the cap: the diff line has 120000 characters.
C18_Witness ==
    /\ Composed({"aiReviewPullRequest"})
    /\ upstream.diff > 120000
    /\ \E i \in LinesOf("diff") : prompt[i].data = 120000

\* C19 as stated: in every AI operation each line of the prompt carries at most
\* 120000 characters of upstream text (the largest cap), so the prompt length is
\* bounded whatever GitHub or the caller supplies.
C19_PromptBounded ==
    Composed(AiOps) => \A i \in 1..Len(prompt) : prompt[i].data <= DiffCap

JsonOps == {"generateAndApplyLabels", "aiDescribePullRequest"}

\* The completion had no content, or a content that is not JSON.
EmptyObject == llm.kind \in {"nocontent", "badjson", "nolabels"}

\* C20 as stated: after a 2xx completion a JSON-mode operation raises only if the
\* labels request fails, never while reading the completion; and a completion
\* without usable content gives labels=[] for label generation, the existing
\* title and an empty description for description generation.
C20_MalformedCompletionTolerated ==
    (pc = "done" /\ call.op \in JsonOps /\ Answered("llm", "ok")) =>
        /\ result.kind = "raised" => Sent("labels") # {}
        /\ (result.kind = "returned" /\ EmptyObject) =>
              IF call.op = "generateAndApplyLabels"
              THEN result.value.labels = <<>>
              ELSE result.value.title = prMeta.title /\ result.value.description = ""

PublishWanted == call.publish /\ env.ghToken /\ prMeta.comments_url

\* C21: in the comment-style operations a comment POST goes out only if publish is
\* requested, a token is set and the PR has a comments_url, and in that case an
\* operation that returns has sent it; it is sent at most once; and publishedUrl
\* is defined only when that POST succeeded, and is then the comment's html_url.
C21_CommentIffPublishWanted ==
    (pc = "done" /\ call.op \in CommentOps) =>
        /\ Sent("comment") # {} => PublishWanted
        /\ (result.kind = "returned" /\ PublishWanted) => Sent("comment") # {}
        /\ Cardinality(Sent("comment")) <= 1
        /\ result.kind = "returned" =>
              /\ result.value.publishedUrl \in {"undefined", "html_url"}
              /\ result.value.publishedUrl = "html_url" => Answered("comment", "ok")

\* A changelog draft published as a comment: one POST, and its URL is returned.
C21_Witness ==
    /\ pc = "done"
    /\ call.op = "aiDraftChangelog"
    /\ PublishWanted
    /\ Cardinality(Sent("comment")) = 1
    /\ Answered("comment", "ok")
    /\ result.kind = "returned"
    /\ result.value.publishedUrl = "html_url"

----------------------------------------------------------------------------
(* Coordinate resolution on its own *)

\* URLs of the form github.com/a/<rest>.
OwnerPrefix == <<"github.com", "/", "a", "/">>
RepoUrls == {OwnerPrefix \o rest : rest \in SeqsUpTo(UrlTokens, MaxSegLen)}

\* The caller of extractRepoIdentifiers gets the pair or the error.
Resolve ==
    /\ call.op = "resolve"
    /\ pc = "call"
    /\ LET ids == extractRepoIdentifiers(call.url)
       IN  IF ids.ok
           THEN Return([owner |-> ids.owner, repo |-> ids.repo])
           ELSE Raise(Raised("Invalid GitHub URL", NoError))
    /\ UNCHANGED <<call, env, net, ReadLocals, WsVars, AiLocals, HookVars>>

InitResolve ==
    /\ IdleHook
    /\ call \in {[op |-> "resolve", url |-> u] : u \in RepoUrls}
    /\ env = [ghToken |-> TRUE, openaiKey |-> TRUE]
    /\ pc = "call"
    /\ net = <<>>
    /\ result = NoResult
    /\ IdleRead
    /\ IdleWs
    /\ IdleAi

SpecResolve == InitResolve /\ [][Resolve]_vars

\* The repository path segment of a URL of RepoUrls: what follows the owner, up to
\* the next "/".
RepoSegment(url) == SubSeq(url, 5, 4 + RunLen(url, 5))

EndsInGit(name) == name # <<>> /\ name[Len(name)] = ".git"

WithoutTrailingGit(name) == IF EndsInGit(name) THEN SubSeq(name, 1, Len(name) - 1) ELSE name

\* C22 as stated: the repo name returned for an accepted URL does not end in
\* ".git" and is the repository path segment with only a trailing ".git" removed.
C22_OnlyTrailingGitRemoved ==
    (pc = "done" /\ call.op = "resolve" /\ result.kind = "returned") =>
        /\ ~EndsInGit(result.value.repo)
        /\ result.value.repo = WithoutTrailingGit(RepoSegment(call.url))

----------------------------------------------------------------------------
(* Two workspace operations running at the same time *)

\* Invocations of the operations that go straight to mkdtemp, on one repository.
ConcurrentCalls ==
    {c \in WsCalls : c.op \in {"checkDependencies", "formatCode", "fixLintErrors"} /\ c.url = GoodUrl}

\* Both handlers are started; their awaits interleave in any order.
InitConcurrent ==
    /\ IdleHook
    /\ IdleCore
    /\ IdleRead
    /\ IdleAi
    /\ \E c1 \in ConcurrentCalls, c2 \in ConcurrentCalls :
          FreshWs([p \in Procs |-> IF p = "p1" THEN c1 ELSE c2])

ConcurrentNext ==
    \E p \in Procs :
        \/ ToolCall(p) \/ Mkdtemp(p) \/ Clone(p)
        \/ DepsOutdated(p) \/ DepsAudit(p) \/ ToolExec(p)
        \/ SubprocessHangs(p) \/ Release(p)

SpecConcurrent == InitConcurrent /\ [][ConcurrentNext]_vars

\* Task p has a directory and has not yet left its finally block.
Using(p) == wcall[p].op \in WsOps /\ wpc[p] # "done" /\ tmpDir[p] # NoDir

\* C23: two operations that are both using a directory use different ones, and the
\* directory an operation is using exists: no other operation's release removed it.
C23_WorkspacesDisjoint ==
    \A p \in Procs :
        Using(p) =>
            /\ tmpDir[p] \in dirs
            /\ \A q \in Procs \ {p} : Using(q) => tmpDir[q] # tmpDir[p]

\* Two operations on the same repository, one in its subprocess and one about to
\* release, each in its own directory.
C23_Witness ==
    /\ wcall["p1"].url = wcall["p2"].url
    /\ wpc["p1"] = "exec"
    /\ wpc["p2"] = "finally"
    /\ Using("p1")
    /\ Using("p2")
    /\ tmpDir["p1"] # tmpDir["p2"]

\* readFile has raised after every candidate's content request failed.
AllCandidatesFailed ==
    /\ call.op = "readFile"
    /\ pc = "done"
    /\ result.kind = "raised"
    /\ Sent("contents") # {}

----------------------------------------------------------------------------
(* Every GitHub and LLM operation, called with valid coordinates *)

AnyCalls ==
    [op : {"readFile"}, url : {GoodUrl}, branch : Branches \cup {NoBranch}]
        \cup GitHubCalls
        \cup {c \in AiCalls : c.url = GoodUrl}

InitAny ==
    /\ IdleHook
    /\ call \in AnyCalls
    /\ env = [ghToken |-> TRUE, openaiKey |-> TRUE]
    /\ pc = "call"
    /\ net = <<>>
    /\ result = NoResult
    /\ IdleRead
    /\ IdleWs
    /\ IdleAi

AnyNext == ReadFileNext \/ ResolveCall \/ GitHubNext \/ AiNext

SpecAny == InitAny /\ [][AnyNext]_vars

\* Two requests with the same method and URL: the same kind of request and, for
\* the content requests of readFile, the same branch.
SameRequest(a, b) == a.kind = b.kind /\ (a.kind = "contents" => a.ref = b.ref)

\* C25: within one invocation no request is sent twice, whatever was answered.
C25_NoRequestTwice ==
    \A i \in 1..Len(net) : \A j \in 1..Len(net) : (i # j) => ~SameRequest(net[i], net[j])

\* readFile after two candidates both failed: lookup, two content requests, probe.
C25_Witness ==
    /\ call.op = "readFile"
    /\ pc = "done"
    /\ Cardinality(Sent("contents")) = 2
    /\ \A i \in Sent("contents") : net[i].resp = "http"
    /\ Cardinality(Sent("branch")) = 1

----------------------------------------------------------------------------
(* closeGitHubIssue with a closing comment *)

ClosingWithComment == call.op = "closeIssue" /\ call.comment /\ pc # "call"

CommentPosted == Answered("issue comment", "ok")
CommentFailed == Sent("issue comment") # {} /\ ~CommentPosted

\* The PATCH was refused or never answered.
PatchFailed == \E j \in Sent("issue patch") : net[j].resp \in {"http", "network"}

\* C26: with a closing comment the POST of the comment comes before the PATCH; a
\* failed comment means no PATCH (the issue stays open) and a raised error; a
\* published comment followed by a failed PATCH still raises.
C26_CommentBeforeClose ==
    ClosingWithComment =>
        /\ \A j \in Sent("issue patch") :
              \E i \in Sent("issue comment") : i < j /\ net[i].resp = "ok"
        /\ CommentFailed =>
              /\ Sent("issue patch") = {}
              /\ pc = "done" /\ result.kind = "raised"
        /\ (CommentPosted /\ PatchFailed) => (pc = "done" /\ result.kind = "raised")

\* The comment was published, the PATCH was refused, the operation raised.
C26_Witness ==
    /\ ClosingWithComment
    /\ pc = "done"
    /\ CommentPosted
    /\ Answered("issue patch", "http")
    /\ result.kind = "raised"
    /\ Len(net) = 2

----------------------------------------------------------------------------
(* aiDescribePullRequest: direct update or fallback comment *)

Describing == call.op = "aiDescribePullRequest"

\* C27: in aiDescribePullRequest a comment is posted only after the PATCH was
\* answered with a non-success status and never after a successful PATCH; each is
\* sent at most once; the returned published flag is true exactly when the PATCH
\* succeeded; without publish or without a token neither request is sent.
C27_UpdateOrComment ==
    Describing =>
        /\ \A j \in Sent("comment") :
              \E i \in Sent("patch") : i < j /\ net[i].resp = "http"
        /\ Sent("comment") # {} => ~Answered("patch", "ok")
        /\ Cardinality(Sent("patch")) <= 1 /\ Cardinality(Sent("comment")) <= 1
        /\ (pc = "done" /\ result.kind = "returned") =>
              (result.value.published <=> Answered("patch", "ok"))
        /\ ~(call.publish /\ env.ghToken) =>
              (Sent("patch") = {} /\ Sent("comment") = {})

\* The PATCH was accepted although a comments_url was at hand: no comment, published.
C27_Witness ==
    /\ Describing /\ pc = "done"
    /\ call.publish /\ env.ghToken /\ prMeta.comments_url
    /\ Answered("patch", "ok")
    /\ Sent("comment") = {}
    /\ result.kind = "returned" /\ result.value.published

----------------------------------------------------------------------------
(* checkDependencies: both npm reports or none *)

\* The npm commands task p has run, in order.
NpmRuns(p) == {i \in 1..Len(fx[p]) : "cmd" \in DOMAIN fx[p][i]}

NpmOk(p, cmd) == \E i \in NpmRuns(p) : fx[p][i].cmd = cmd /\ fx[p][i].exit = "ok"
NpmBroke(p) == \E i \in NpmRuns(p) : fx[p][i].exit \in {"failed", "unparseable"}

DepsFinished(p) == Finished(p) /\ wcall[p].op = "checkDependencies"

\* C28: checkDependencies returns a non-empty list only when both npm commands
\* exited with status 0 and printed parseable JSON; when either exited non-zero or
\* printed unparseable output the result is the empty fallback, whatever the other
\* command reported.
C28_BothReportsOrFallback ==
    \A p \in Procs :
        DepsFinished(p) =>
            /\ (wres[p].kind = "returned"
                  /\ (wres[p].value.outdated > 0 \/ wres[p].value.vulnerabilities > 0)) =>
                  (NpmOk(p, "npm outdated --json") /\ NpmOk(p, "npm audit --json"))
            /\ NpmBroke(p) => wres[p] = Returned(DepsFallback)

----------------------------------------------------------------------------
(* runTests: consistency of the returned TestRunResult *)

\* C29: every TestRunResult returned by runTests, on every path, has
\* failedTests <= totalTests, passed only with failedTests = 0, and a non-empty
\* errors list whenever failedTests > 0.
C29_TestRunConsistent ==
    \A p \in Procs :
        (Finished(p) /\ wcall[p].op = "runTests" /\ wres[p].kind = "returned") =>
            /\ wres[p].value.failedTests <= wres[p].value.totalTests
            /\ wres[p].value.passed => wres[p].value.failedTests = 0
            /\ wres[p].value.failedTests > 0 => wres[p].value.errors # <<>>

----------------------------------------------------------------------------
(* The webhook endpoint: POST /api/webhook *)

Absent == -1

\* The fields of the delivery the handler reads: repository, ref, the number of
\* commits (Absent without a commits field), and id and author of the last commit.
Bodies ==
    [repository : BOOLEAN, ref : BOOLEAN, commits : {Absent} \cup 0..MaxCommits,
     id : BOOLEAN, author : BOOLEAN]

NoFields == [repository |-> FALSE, ref |-> FALSE, commits |-> Absent, id |-> FALSE, author |-> FALSE]

\* x-github-event: a push, another event, or no header.
Events == {"push", "ping", "null"}

\* The request body is not JSON, is JSON null, or is an object.
Deliveries ==
    {[op |-> "POST", event |-> e, json |-> j, body |-> NoFields] :
        e \in Events, j \in {"invalid", "null"}}
    \cup {[op |-> "POST", event |-> e, json |-> "object", body |-> b] :
        e \in Events, b \in Bodies}

Respond(status, message) == Return([status |-> status, message |-> message])

\* The callback handed to setTimeout(..., 100).
Analysis100 == [delay |-> 100, state |-> "pending"]

\* The handler, from request.json() to the response.  Every throw inside it lands
\* in the outer catch, which answers 500.
POST ==
    /\ call.op = "POST"
    /\ pc = "call"
    /\ LET b == call.body
       IN  CASE call.json = "invalid" ->
                  Respond(500, "Internal server error") /\ timers' = timers
             [] call.event # "push" ->
                  Respond(200, "Event received but not processed") /\ timers' = timers
             [] call.json = "null" ->            \* destructuring null throws
                  Respond(500, "Internal server error") /\ timers' = timers
             [] ~b.repository \/ b.commits = Absent \/ b.commits = 0 ->
                  Respond(200, "No commits in push event") /\ timers' = timers
             [] ~b.ref \/ ~b.author ->           \* ref.replace, lastCommit.author.name
                  Respond(500, "Internal server error") /\ timers' = timers
             [] OTHER ->
                  /\ timers' = Append(timers, Analysis100)
                  /\ IF b.id                     \* lastCommit.id.substring
                     THEN Respond(200, "Webhook received, analysis queued")
                     ELSE Respond(500, "Internal server error")
    /\ UNCHANGED <<call, env, net, ReadLocals, WsVars, AiLocals>>

\* The timer fires once the handler has returned: the callback awaits
\* repoSageAgent.generate.
AnalysisStarts(i) ==
    /\ pc = "done"
    /\ timers[i].state = "pending"
    /\ timers' = [timers EXCEPT ![i].state = "running"]
    /\ UNCHANGED <<CoreVars, ReadLocals, WsVars, AiLocals>>

\* generate resolves, or rejects and the callback's catch logs the error.
AnalysisSettles(i) ==
    /\ timers[i].state = "running"
    /\ \E outcome \in {"resolved", "logged"} :
          timers' = [timers EXCEPT ![i].state = outcome]
    /\ UNCHANGED <<CoreVars, ReadLocals, WsVars, AiLocals>>

InitWebhook ==
    /\ call \in Deliveries
    /\ env = [ghToken |-> TRUE, openaiKey |-> TRUE]
    /\ pc = "call"
    /\ net = <<>>
    /\ result = NoResult
    /\ IdleRead
    /\ IdleWs
    /\ IdleAi
    /\ IdleHook

WebhookNext ==
    \/ POST
    \/ \E i \in 1..Len(timers) : AnalysisStarts(i)
    \/ \E i \in 1..Len(timers) : AnalysisSettles(i)

SpecWebhook == InitWebhook /\ [][WebhookNext]_vars

\* The delivery is a push whose body has a repository and at least one commit.
PushWithCommits ==
    /\ call.json = "object"
    /\ call.event = "push"
    /\ call.body.repository
    /\ call.body.commits >= 1

Answered200or500 == pc = "done" /\ result.kind = "returned"

\* C30: for every webhook POST the analysis is scheduled at most once, and exactly
\* when the event is a push whose body has a repository and at least one commit;
\* the response is there before the analysis starts, and the analysis, failed or
\* not, never changes the response and never raises.
C30_AnalysisIffPushWithCommits ==
    /\ [](call.op = "POST" =>
            /\ Len(timers) <= 1
            /\ pc = "done" => (Len(timers) = 1 <=> PushWithCommits)
            /\ (\E i \in 1..Len(timers) : timers[i].state # "pending") => Answered200or500
            /\ result.kind # "raised")
    /\ [][(call.op = "POST" /\ pc = "done") => result' = result]_vars

====
